---- MODULE Spec2Model ----
(***************************************************************************)
(* A model of configmaker.py (GCF-configmaker): the command-line entry     *)
(* point and the functions it calls.  Strings whose characters the code    *)
(* inspects (directory names, FASTQ file names, sample IDs, the read       *)
(* geometry descriptor) are sequences of one-character strings.            *)
(*                                                                         *)
(* Specifications:                                                         *)
(*   Spec          the __main__ block, from parse_args to yaml.dump        *)
(*   SpecDirs      inspect_dirs on bounded run folders                     *)
(*   SpecSheet     get_project_samples_from_samplesheet on bounded sheets  *)
(*   SpecFastq     find_samples on bounded project directories             *)
(*   SpecMerge     merge_samples_with_submission_form                      *)
(*   SpecGeometry  find_read_geometry                                      *)
(*   SpecMachine   the machine field of create_default_config              *)
(***************************************************************************)
EXTENDS Integers, Sequences, FiniteSets, TLC

VARIABLES
    pc,        \* position of the program: the function about to run, or where it ended
    args,      \* the arguments of the running function / the parsed command line
    fs,        \* what the running function reads from disk (listings, files, workbook)
    ret,       \* what the last function returned, or the error it raised
    warnings,  \* records logged through logger.warning
    output,    \* the file named by --output: its state before the run and now
    locals     \* local variables of the __main__ block

vars == <<pc, args, fs, ret, warnings, output, locals>>

(***************************************************************************)
(* Bounds of the model.                                                    *)
(***************************************************************************)
MaxRunfolders == 2
MaxEntries == 2

(***************************************************************************)
(* Values shared by all operations.                                        *)
(***************************************************************************)
None == <<"<None>">>
NoRet == [err |-> "pending"]
NoOutput == [before |-> "absent", now |-> "absent"]
NoLocals == [project_id |-> None, samples |-> {}]

Digits == {"0", "1", "2", "3", "4", "5", "6", "7", "8", "9"}

\* All sequences over S of length lo..hi.
SeqsOf(S, lo, hi) == UNION {[1..n -> S] : n \in lo..hi}

\* All subsets of S with at most n elements.
SubsetsUpTo(S, n) == {T \in SUBSET S : Cardinality(T) <= n}

(***************************************************************************)
(* Input Resolver: _match_project_dir and inspect_dirs.                    *)
(***************************************************************************)
P1 == <<"G", "C", "F", "-", "2", "0", "2", "0", "-", "0", "0", "1">>
P2 == <<"G", "C", "F", "-", "2", "0", "2", "0", "-", "0", "0", "2">>
P1old == P1 \o <<"_", "o", "l", "d">>
StatsName == <<"S", "t", "a", "t", "s">>

\* Directory entries a run folder may hold: a name and whether it is a directory.
DirEntries ==
    { [name |-> P1, isdir |-> TRUE], [name |-> P2, isdir |-> TRUE],
      [name |-> P1old, isdir |-> TRUE], [name |-> StatsName, isdir |-> TRUE],
      [name |-> P2, isdir |-> FALSE] }

\* A listing (os.listdir): entries with pairwise distinct names.
Listings ==
    { L \in SubsetsUpTo(DirEntries, MaxEntries) :
        \A e1, e2 \in L : e1.name = e2.name => e1 = e2 }

\* re.match('GCF-\d{4}-\d{3}', fn): the pattern anchored at the start only.
MatchGcfId(fn) ==
    /\ Len(fn) >= 12
    /\ fn[1] = "G" /\ fn[2] = "C" /\ fn[3] = "F" /\ fn[4] = "-"
    /\ \A i \in 5..8 : fn[i] \in Digits
    /\ fn[9] = "-"
    /\ \A i \in 10..12 : fn[i] \in Digits

\* os.path.join(pth, fn), pth being the run folder at position rf.
JoinPath(rf, fn) == [runfolder |-> rf, name |-> fn]

\* _match_project_dir(pth, project_id): listing is os.listdir(pth).
MatchProjectDir(listing, rf, project_id) ==
    IF project_id # None
    THEN IF \E e \in listing : e.isdir /\ e.name = project_id
         THEN [err |-> "none", pdir |-> JoinPath(rf, project_id), pid |-> project_id]
         ELSE [err |-> "ProjectNotPresent"]
    ELSE LET cand == {e \in listing : e.isdir /\ MatchGcfId(e.name)}
         IN IF Cardinality(cand) > 1 THEN [err |-> "MultipleProjectFolders"]
            ELSE IF cand = {} THEN [err |-> "NoProjectFolder"]
            ELSE LET e == CHOOSE x \in cand : TRUE
                 IN [err |-> "none", pdir |-> JoinPath(rf, e.name), pid |-> e.name]

\* Mutant of inspect_dirs: the check of len(project_ids) > 1 is missing.
InspectDirsNoCheck(runfolders, project_id) ==
    LET m == [i \in DOMAIN runfolders |-> MatchProjectDir(runfolders[i], i, project_id)]
        bad == {i \in DOMAIN runfolders : m[i].err # "none"}
    IN IF bad # {}
       THEN [err |-> m[CHOOSE i \in bad : \A j \in bad : i <= j].err]
       ELSE LET project_ids == {m[i].pid : i \in DOMAIN runfolders}
            IN [err |-> "none",
                project_dirs |-> [i \in DOMAIN runfolders |-> m[i].pdir],
                project_id |-> IF project_ids = {} THEN project_id
                               ELSE m[Len(runfolders)].pid]

\* inspect_dirs(runfolders, project_id): runfolders[i] is the listing of the
\* i-th run folder.  The first folder that fails raises its error.
InspectDirs(runfolders, project_id) ==
    LET m == [i \in DOMAIN runfolders |-> MatchProjectDir(runfolders[i], i, project_id)]
        bad == {i \in DOMAIN runfolders : m[i].err # "none"}
    IN IF bad # {}
       THEN [err |-> m[CHOOSE i \in bad : \A j \in bad : i <= j].err]
       ELSE LET project_ids == {m[i].pid : i \in DOMAIN runfolders}
            IN IF Cardinality(project_ids) > 1
               THEN [err |-> "MultipleProjectIds"]
               ELSE [err |-> "none",
                     project_dirs |-> [i \in DOMAIN runfolders |-> m[i].pdir],
                     project_id |-> IF project_ids = {} THEN project_id
                                    ELSE CHOOSE p \in project_ids : TRUE]

InitDirs ==
    /\ pc = "inspect_dirs"
    /\ args \in [project_id : {None, P1}]
    /\ fs \in SeqsOf(Listings, 1, MaxRunfolders)
    /\ ret = NoRet
    /\ warnings = {}
    /\ output = NoOutput
    /\ locals = NoLocals

CallInspectDirs ==
    /\ pc = "inspect_dirs"
    /\ ret' = InspectDirs(fs, args.project_id)
    /\ pc' = "inspect_dirs_returned"
    /\ UNCHANGED <<args, fs, warnings, output, locals>>

NextDirs == CallInspectDirs

SpecDirs == InitDirs /\ [][NextDirs]_vars

\* The directories of a listing that the facility ID pattern matches.
ProjectSubdirs(listing) == {e \in listing : e.isdir /\ MatchGcfId(e.name)}

\* The case of C3: no project ID supplied, one matching subdirectory per folder.
OneProjectPerFolder ==
    /\ pc = "inspect_dirs_returned"
    /\ args.project_id = None
    /\ \A i \in DOMAIN fs : Cardinality(ProjectSubdirs(fs[i])) = 1

ProjectNameOf(i) == (CHOOSE e \in ProjectSubdirs(fs[i]) : TRUE).name

\* C3: with no project ID supplied and exactly one subdirectory matching the
\* facility ID pattern in each run folder, inspect_dirs raises the
\* more-than-one-project-ID error exactly when two run folders' project
\* subdirectory names differ; otherwise it returns one project directory per
\* run folder, in run-folder order, and a project ID equal to the name of
\* every returned project directory.
C3_InspectDirs ==
    OneProjectPerFolder =>
        /\ ret.err \in {"none", "MultipleProjectIds"}
        /\ ret.err = "MultipleProjectIds" <=>
              \E i, j \in DOMAIN fs : ProjectNameOf(i) # ProjectNameOf(j)
        /\ ret.err = "none" =>
              /\ Len(ret.project_dirs) = Len(fs)
              /\ \A i \in DOMAIN fs :
                    /\ ret.project_dirs[i].runfolder = i
                    /\ ret.project_dirs[i].name = ProjectNameOf(i)
                    /\ ret.project_dirs[i].name = ret.project_id

\* Two run folders resolved to the same project, one of them a directory
\* whose name only starts with the pattern.
C3_Witness ==
    /\ OneProjectPerFolder
    /\ Len(fs) = 2
    /\ ret.err = "none"
    /\ ret.project_id = P1old

(***************************************************************************)
(* Config Assembler: find_read_geometry.                                   *)
(***************************************************************************)
MaxReads == 2

\* Cycle counts a read may have: chosen so that two different lists of
\* counts can spell the same digits.
CycleVals == {1, 11}

\* One entry of S['ReadInfosForLanes'][0]['ReadInfos'] in Stats.json.
ReadInfos == [NumCycles : CycleVals, IsIndexedRead : BOOLEAN]

DigitChar == <<"0", "1", "2", "3", "4", "5", "6", "7", "8", "9">>

\* str(n) for a natural number n.
RECURSIVE Str(_)
Str(n) == IF n < 10 THEN <<DigitChar[n + 1]>>
          ELSE Str(n \div 10) \o <<DigitChar[(n % 10) + 1]>>

\* sep.join(strs): the strings with sep between neighbours.
RECURSIVE Join(_, _)
Join(sep, strs) ==
    IF Len(strs) = 0 THEN <<>>
    ELSE IF Len(strs) = 1 THEN strs[1]
    ELSE strs[1] \o sep \o Join(sep, Tail(strs))

\* [x for x in s if keep(x)], for the set Keep of kept elements.
RECURSIVE FilterSeq(_, _)
FilterSeq(s, Keep) ==
    IF Len(s) = 0 THEN <<>>
    ELSE (IF s[1] \in Keep THEN <<s[1]>> ELSE <<>>) \o FilterSeq(Tail(s), Keep)

\* The read_geometry list built for one run folder (lines 235-240).
FolderGeometry(infos) ==
    LET kept == FilterSeq(infos, {r \in ReadInfos : ~r.IsIndexedRead})
    IN [i \in DOMAIN kept |-> kept[i].NumCycles]

\* Mutant of GeometryKey: the counts joined with no separator.
GeometryKeyNoSep(read_geometry) ==
    Join(<<>>, [i \in DOMAIN read_geometry |-> Str(read_geometry[i])])

\* ':'.join(map(str, read_geometry)) (line 241).
GeometryKey(read_geometry) ==
    Join(<<":">>, [i \in DOMAIN read_geometry |-> Str(read_geometry[i])])

\* find_read_geometry(runfolders): stats[i] is the ReadInfos list of the
\* first lane in the i-th run folder's Stats.json.  The value returned is
\* the list built for the last run folder.
FindReadGeometry(stats) ==
    LET all == {GeometryKey(FolderGeometry(stats[i])) : i \in DOMAIN stats}
    IN IF Cardinality(all) > 1 THEN [err |-> "ReadGeometryMismatch"]
       ELSE IF Len(stats) = 0 THEN [err |-> "UnboundLocalError"]
       ELSE [err |-> "none", read_geometry |-> FolderGeometry(stats[Len(stats)])]

InitGeometry ==
    /\ pc = "find_read_geometry"
    /\ args = [runfolders |-> "positional"]
    /\ fs \in SeqsOf(SeqsOf(ReadInfos, 0, MaxReads), 1, MaxRunfolders)
    /\ ret = NoRet
    /\ warnings = {}
    /\ output = NoOutput
    /\ locals = NoLocals

CallFindReadGeometry ==
    /\ pc = "find_read_geometry"
    /\ ret' = FindReadGeometry(fs)
    /\ pc' = "find_read_geometry_returned"
    /\ UNCHANGED <<args, fs, warnings, output, locals>>

NextGeometry == CallFindReadGeometry

SpecGeometry == InitGeometry /\ [][NextGeometry]_vars

\* The cycle counts of the non-index reads of a ReadInfos list, in listed
\* order, stated without the code's loop: the k-th count is the count of the
\* k-th non-index entry.
IsNonIndexCycles(infos, cycles) ==
    LET idx == {i \in DOMAIN infos : ~infos[i].IsIndexedRead}
    IN /\ Len(cycles) = Cardinality(idx)
       /\ \A i \in idx :
             cycles[Cardinality({j \in idx : j <= i})] = infos[i].NumCycles

\* C5: find_read_geometry raises the read-geometry-mismatch error exactly
\* when two run folders differ in the ordered list of cycle counts of their
\* non-index reads; otherwise it returns that common list, index reads
\* excluded and listed order kept.
C5_ReadGeometry ==
    pc = "find_read_geometry_returned" =>
        /\ ret.err \in {"none", "ReadGeometryMismatch"}
        /\ ret.err = "ReadGeometryMismatch" <=>
              \E i, j \in DOMAIN fs : \E c \in SeqsOf(CycleVals, 0, Len(fs[i])) :
                  IsNonIndexCycles(fs[i], c) /\ ~IsNonIndexCycles(fs[j], c)
        /\ ret.err = "none" =>
              \A i \in DOMAIN fs : IsNonIndexCycles(fs[i], ret.read_geometry)

\* Two run folders with the same two non-index reads around different
\* index reads: no error, and the common list is returned.
C5_Witness ==
    /\ pc = "find_read_geometry_returned"
    /\ Len(fs) = 2
    /\ fs[1] # fs[2]
    /\ ret.err = "none"
    /\ Len(ret.read_geometry) >= 1

(***************************************************************************)
(* FASTQ Matcher: match_fastq and find_samples.                            *)
(***************************************************************************)
MaxFiles == 2
MaxSamples == 2

FastqGz == <<".", "f", "a", "s", "t", "q", ".", "g", "z">>

\* Sample IDs of the sample table.  ID_A followed by "_" is a prefix of ID_A_B.
ID_A == <<"A">>
ID_B == <<"B">>
ID_A_B == <<"A", "_", "B">>
SampleIds == {ID_A, ID_B, ID_A_B}

\* File names a project directory tree may hold.
FileNames ==
    { ID_A \o <<"_", "R", "1">> \o FastqGz,
      ID_A \o <<"_", "R", "2">> \o FastqGz,
      ID_A_B \o <<"_", "R", "1">> \o FastqGz,
      ID_B \o <<"_", "S", "1", "_", "R", "2">> \o FastqGz,
      ID_A \o <<"_", "R", "2", ".", "f", "a", "s", "t", "q">> }

\* The sample table: a list of pairwise distinct Sample_IDs (line 128).
SampleTables ==
    { df \in SeqsOf(SampleIds, 0, MaxSamples) :
        \A i, j \in DOMAIN df : df[i] = df[j] => i = j }

\* fnmatch of the file name from position i on against the pattern from
\* position j on: "*" matches any run of characters, every other pattern
\* character matches itself.
RECURSIVE FnMatchFrom(_, _, _, _)
FnMatchFrom(name, i, pat, j) ==
    IF j > Len(pat) THEN i > Len(name)
    ELSE IF pat[j] = "*"
         THEN \E k \in i..(Len(name) + 1) : FnMatchFrom(name, k, pat, j + 1)
         ELSE /\ i <= Len(name)
              /\ name[i] = pat[j]
              /\ FnMatchFrom(name, i + 1, pat, j + 1)

FnMatch(name, pat) == FnMatchFrom(name, 1, pat, 1)

\* The characters of the model's names in the order of their code points.
CharOrder ==
    <<".", "0", "1", "2", "3", "4", "5", "6", "7", "8", "9", "A", "B", "R", "S",
      "_", "a", "f", "g", "q", "s", "t", "z">>

Ord(c) == CHOOSE i \in DOMAIN CharOrder : CharOrder[i] = c

\* a < b for strings.
RECURSIVE LexLess(_, _)
LexLess(a, b) ==
    IF Len(b) = 0 THEN FALSE
    ELSE IF Len(a) = 0 THEN TRUE
    ELSE IF a[1] = b[1] THEN LexLess(Tail(a), Tail(b))
    ELSE Ord(a[1]) < Ord(b[1])

\* sorted(S) for a set S of strings.
RECURSIVE Sorted(_)
Sorted(S) ==
    IF S = {} THEN <<>>
    ELSE LET m == CHOOSE x \in S : \A y \in S \ {x} : LexLess(x, y)
         IN <<m>> \o Sorted(S \ {m})

\* sample_name + '_*R<n>*.fastq.gz' (lines 149-150).
FastqPattern(sample_name, n) ==
    sample_name \o <<"_", "*", "R", n, "*">> \o FastqGz

\* match_fastq(sample_name, project_dir): files is the set of file names in
\* the tree of the d-th project directory; a path is the directory and the name.
MatchFastq(sample_name, files, d) ==
    LET hits(n) == Sorted({f \in files : FnMatch(f, FastqPattern(sample_name, n))})
        paths(q) == [i \in DOMAIN q |-> [dir |-> d, name |-> q[i]]]
    IN [r1 |-> paths(hits("1")), r2 |-> paths(hits("2"))]

\* The results of match_fastq for every project directory from the d-th on
\* (the loop of lines 161-164).
RECURSIVE MatchAll(_, _, _)
MatchAll(sample_name, project_dirs, d) ==
    IF d > Len(project_dirs) THEN <<>>
    ELSE <<MatchFastq(sample_name, project_dirs[d], d)>>
         \o MatchAll(sample_name, project_dirs, d + 1)

\* list.extend over the per-directory lists qs.
RECURSIVE Extend(_)
Extend(qs) == IF Len(qs) = 0 THEN <<>> ELSE qs[1] \o Extend(Tail(qs))

\* Mutant of find_samples: paired_end decided on the last directory's R2
\* matches instead of the aggregated list.
FindSamplesLastDir(df, project_dirs) ==
    [sid \in {df[i] : i \in DOMAIN df} |->
        LET ms == MatchAll(sid, project_dirs, 1)
            s_r1 == Extend([d \in DOMAIN ms |-> ms[d].r1])
            s_r2 == Extend([d \in DOMAIN ms |-> ms[d].r2])
        IN [R1 |-> s_r1, R2 |-> s_r2,
            paired_end |-> IF Len(ms[Len(ms)].r2) = 0 THEN 0 ELSE 1,
            Sample_ID |-> sid]]

\* find_samples(df, project_dirs): the sample dictionary.  R1 and R2 hold the
\* paths that the code joins with commas.
FindSamples(df, project_dirs) ==
    [sid \in {df[i] : i \in DOMAIN df} |->
        LET ms == MatchAll(sid, project_dirs, 1)
            s_r1 == Extend([d \in DOMAIN ms |-> ms[d].r1])
            s_r2 == Extend([d \in DOMAIN ms |-> ms[d].r2])
        IN [R1 |-> s_r1, R2 |-> s_r2,
            paired_end |-> IF Len(s_r2) = 0 THEN 0 ELSE 1,
            Sample_ID |-> sid]]

InitFastq ==
    /\ pc = "find_samples"
    /\ args \in [df : SampleTables]
    /\ fs \in SeqsOf(SubsetsUpTo(FileNames, MaxFiles), 1, MaxRunfolders)
    /\ ret = NoRet
    /\ warnings = {}
    /\ output = NoOutput
    /\ locals = NoLocals

CallFindSamples ==
    /\ pc = "find_samples"
    /\ ret' = [err |-> "none", sample_dict |-> FindSamples(args.df, fs)]
    /\ pc' = "find_samples_returned"
    /\ UNCHANGED <<args, fs, warnings, output, locals>>

NextFastq == CallFindSamples

SpecFastq == InitFastq /\ [][NextFastq]_vars

\* name is sid, "_", anything, "R", n, anything, ".fastq.gz": the shape of a
\* read-n file of sample sid, stated by positions.
IsReadFileOf(name, sid, n) ==
    LET lo == Len(sid) + 2
        hi == Len(name) - Len(FastqGz)
    IN /\ hi >= Len(sid) + 1
       /\ SubSeq(name, 1, Len(sid) + 1) = sid \o <<"_">>
       /\ SubSeq(name, hi + 1, Len(name)) = FastqGz
       /\ \E k \in lo..(hi - 1) : name[k] = "R" /\ name[k + 1] = n

\* The paths of the read-n files of sample sid in the project directories.
FilesOf(sid, n) ==
    UNION { {[dir |-> d, name |-> f] : f \in {g \in fs[d] : IsReadFileOf(g, sid, n)}} :
            d \in DOMAIN fs }

SeqRange(q) == {q[i] : i \in DOMAIN q}

\* C4: for every sample of the table, paired_end is 1 exactly when an R2
\* file of the sample exists in at least one of the searched project
\* directories, and 0 otherwise; a sample no file matches gets paired_end 0
\* and empty R1 and R2 lists, and no error is raised.
C4_PairedEnd ==
    pc = "find_samples_returned" =>
        /\ ret.err = "none"
        /\ DOMAIN ret.sample_dict = SeqRange(args.df)
        /\ \A sid \in DOMAIN ret.sample_dict :
              LET rec == ret.sample_dict[sid]
              IN /\ rec.paired_end \in {0, 1}
                 /\ rec.paired_end = 1 <=> FilesOf(sid, "2") # {}
                 /\ (FilesOf(sid, "1") = {} /\ FilesOf(sid, "2") = {}) =>
                       (rec.R1 = <<>> /\ rec.R2 = <<>> /\ rec.paired_end = 0)

\* A sample whose only R2 file lies in the first of two project directories.
C4_Witness ==
    /\ pc = "find_samples_returned"
    /\ Len(fs) = 2
    /\ \E sid \in DOMAIN ret.sample_dict :
          /\ ret.sample_dict[sid].paired_end = 1
          /\ \A p \in FilesOf(sid, "2") : p.dir = 1
          /\ Len(ret.sample_dict[sid].R1) > 0

\* C10: no file path appears in the R1 or R2 list of two different samples.
C10_OneSamplePerFile ==
    pc = "find_samples_returned" =>
        \A s1, s2 \in DOMAIN ret.sample_dict :
            s1 # s2 =>
                (SeqRange(ret.sample_dict[s1].R1) \cup SeqRange(ret.sample_dict[s1].R2))
                \cap
                (SeqRange(ret.sample_dict[s2].R1) \cup SeqRange(ret.sample_dict[s2].R2))
                = {}

(***************************************************************************)
(* Sample-Sheet Reader: inspect_samplesheet, get_data_from_samplesheet,    *)
(* get_project_samples_from_samplesheet.                                   *)
(***************************************************************************)
MaxHeadLines == 2
MaxRows == 1

\* A Python value of the options mapping: True, or a string.
PyTrue == [type |-> "bool", val |-> "True"]
PyStr(v) == [type |-> "str", val |-> v]

\* A line before the [Data] marker, as line.split(',') with each part
\* right-stripped.  None of them starts with '[Data]'.
HeadLines ==
    { <<"[Header]">>, <<"[CustomOptions]">>, <<"">>,
      <<"Organism", "human">>, <<"Organism", "mouse">>, <<"Libprep", "TRUE">> }

\* A row of the [Data] table.
DataRows == [Sample_ID : {ID_A, ID_B}, Sample_Project : {P1, P2}]

\* A sample sheet: the lines before the first line starting with '[Data]',
\* whether there is such a line, and the rows of the table after it.
Sheets ==
    { sh \in [head : SeqsOf(HeadLines, 0, MaxHeadLines), has_data : BOOLEAN,
              rows : SeqsOf(DataRows, 0, MaxRows)] :
        ~sh.has_data => sh.rows = <<>> }

\* val.lower() on the values of the model.
Lower(v) == IF v = "TRUE" THEN "true" ELSE v

\* Lines 110-111: a value equal to 'true' in any case becomes True, every
\* other value stays the string it is.
OptionValue(v) == IF Lower(v) = "true" THEN PyTrue ELSE PyStr(v)

\* dict: d[key] = val.
SetItem(d, key, val) == [k \in DOMAIN d \cup {key} |-> IF k = key THEN val ELSE d[k]]

EmptyDict == [k \in {} |-> PyTrue]

\* The while loop of get_data_from_samplesheet from line i of the head on.
\* At end-of-file line 101 formats the message with s.name, and s is not a
\* name of this function or of the module: NameError is raised.
RECURSIVE ScanSheet(_, _, _, _)
ScanSheet(sh, i, custom_opts, opts_d) ==
    IF i > Len(sh.head)
    THEN IF sh.has_data
         THEN [err |-> "none", data |-> sh.rows, opts |-> opts_d]
         ELSE [err |-> "NameError"]
    ELSE LET line == sh.head[i]
         IN IF line[1] = "[CustomOptions]"
            THEN ScanSheet(sh, i + 1, TRUE, opts_d)
            ELSE IF custom_opts
            THEN IF Len(line) # 2
                 THEN [err |-> "ValueError"]
                 ELSE ScanSheet(sh, i + 1, custom_opts,
                                SetItem(opts_d, line[1], OptionValue(line[2])))
            ELSE ScanSheet(sh, i + 1, custom_opts, opts_d)

\* get_data_from_samplesheet(fh).
GetDataFromSamplesheet(sh) == ScanSheet(sh, 1, FALSE, EmptyDict)

\* inspect_samplesheet(samplesheet, runfolders): the sheets to read.
\* explicit holds the sheet given with --sample-sheet (or nothing);
\* folders[i] holds the SampleSheet.csv of the i-th run folder (or nothing).
InspectSamplesheet(explicit, folders) ==
    IF explicit # {}
    THEN [err |-> "none", ss |-> <<CHOOSE sh \in explicit : TRUE>>]
    ELSE LET found == FilterSeq([i \in DOMAIN folders |-> i],
                                {i \in DOMAIN folders : folders[i] # {}})
         IN IF Len(found) = 0 THEN [err |-> "SampleSheetNotFound"]
            ELSE [err |-> "none",
                  ss |-> [k \in DOMAIN found |->
                            CHOOSE sh \in folders[found[k]] : TRUE]]

\* df.drop_duplicates(['Sample_ID']) on the column of Sample_IDs.
RECURSIVE DropDuplicates(_)
DropDuplicates(ids) ==
    IF Len(ids) = 0 THEN <<>>
    ELSE LET front == DropDuplicates(SubSeq(ids, 1, Len(ids) - 1))
             x == ids[Len(ids)]
         IN IF x \in SeqRange(front) THEN front ELSE Append(front, x)

\* pd.concat(df_list) for the tables parsed[1..n].
RECURSIVE Concat(_, _)
Concat(parsed, n) ==
    IF n = 0 THEN <<>> ELSE Concat(parsed, n - 1) \o parsed[n].data

\* get_project_samples_from_samplesheet(samplesheet, runfolders, project_id).
\* opts is the variable assigned in the loop (line 122): it holds the
\* options of the sheet read last.
GetProjectSamples(explicit, folders, project_id) ==
    LET found == InspectSamplesheet(explicit, folders)
    IN IF found.err # "none" THEN [err |-> found.err]
       ELSE LET ss == found.ss
                parsed == [k \in DOMAIN ss |-> GetDataFromSamplesheet(ss[k])]
                bad == {k \in DOMAIN ss : parsed[k].err # "none"}
            IN IF bad # {}
               THEN [err |-> parsed[CHOOSE k \in bad : \A j \in bad : k <= j].err]
               ELSE LET df == Concat(parsed, Len(ss))
                        mine == FilterSeq(df, {r \in DataRows : r.Sample_Project = project_id})
                    IN [err |-> "none",
                        df |-> DropDuplicates([i \in DOMAIN mine |-> mine[i].Sample_ID]),
                        opts |-> parsed[Len(ss)].opts]

InitSheet ==
    /\ pc = "get_project_samples_from_samplesheet"
    /\ args \in [samplesheet : BOOLEAN, project_id : {P1}]
    /\ \/ /\ args.samplesheet
          /\ fs \in [explicit : {{sh} : sh \in Sheets},
                     folders : SeqsOf({{}}, 1, MaxRunfolders)]
       \/ /\ ~args.samplesheet
          /\ fs \in [explicit : {{}},
                     folders : SeqsOf({{}} \cup {{sh} : sh \in Sheets}, 1, MaxRunfolders)]
    /\ ret = NoRet
    /\ warnings = {}
    /\ output = NoOutput
    /\ locals = NoLocals

CallGetProjectSamples ==
    /\ pc = "get_project_samples_from_samplesheet"
    /\ ret' = GetProjectSamples(fs.explicit, fs.folders, args.project_id)
    /\ pc' = "get_project_samples_returned"
    /\ UNCHANGED <<args, fs, warnings, output, locals>>

NextSheet == CallGetProjectSamples

SpecSheet == InitSheet /\ [][NextSheet]_vars

\* The sheets that were read, in run-folder order.
SheetsRead == InspectSamplesheet(fs.explicit, fs.folders).ss

\* The key/value lines of a sheet that follow its [CustomOptions] marker.
OptionLines(sh) ==
    {i \in DOMAIN sh.head :
        /\ Len(sh.head[i]) = 2
        /\ \E j \in 1..(i - 1) : sh.head[j] = <<"[CustomOptions]">>}

\* C6: a sample sheet with no line starting with [Data] makes the reader
\* end with the malformed-sample-sheet error ('No [data]-section ...') and
\* with no other failure.
C6_NoDataSection ==
    ( /\ pc = "get_project_samples_returned"
      /\ InspectSamplesheet(fs.explicit, fs.folders).err = "none"
      /\ ~SheetsRead[1].has_data )
    => ret.err = "MalformedSampleSheet"

\* C7: the options returned are the merge of the options of all sheets read,
\* in run-folder order: a key set in any sheet is present, with the value of
\* the last sheet that sets it.
C7_OptionsMerged ==
    (pc = "get_project_samples_returned" /\ ret.err = "none") =>
        \A k \in DOMAIN SheetsRead : \A i \in OptionLines(SheetsRead[k]) :
            LET key == SheetsRead[k].head[i][1]
            IN /\ key \in DOMAIN ret.opts
               /\ ( /\ \A k2 \in (k + 1)..Len(SheetsRead) :
                          \A i2 \in OptionLines(SheetsRead[k2]) :
                              SheetsRead[k2].head[i2][1] # key
                    /\ \A i2 \in OptionLines(SheetsRead[k]) :
                          i2 > i => SheetsRead[k].head[i2][1] # key )
                  => ret.opts[key] = OptionValue(SheetsRead[k].head[i][2])

(***************************************************************************)
(* Submission-Form Merger: merge_samples_with_submission_form and          *)
(* check_existence_of_samples.                                             *)
(***************************************************************************)

\* check_existence_of_samples(samples, df): the warnings it logs, given the
\* keys of the sample dictionary and the Sample_ID column of the sheet.
CheckExistenceOfSamples(samples, ids) ==
    (IF samples \ ids # {}
     THEN {[kind |-> "in SampleSheet, not in submission form", ids |-> samples \ ids]}
     ELSE {})
    \cup
    (IF ids \ samples # {}
     THEN {[kind |-> "in submission form, not in SampleSheet", ids |-> ids \ samples]}
     ELSE {})

\* The Sample_ID column of `merge` (lines 209-212): the inner join of the
\* customer sheet with the lab sheet, or the customer sheet alone when the
\* lab sheet has no rows.
MergedFormIds(customer, lab) ==
    IF lab # {} THEN customer \cap lab ELSE customer

\* merge_samples_with_submission_form(ssub, sample_dict): customer and lab
\* are the Sample_ID columns of worksheets 0 and 2.  A sample dictionary
\* with no entry gives a frame without a Sample_ID column, and the merge on
\* that column (line 215) raises KeyError.
MergeSamples(customer, lab, sample_dict) ==
    IF DOMAIN sample_dict = {}
    THEN [err |-> "KeyError"]
    ELSE [err |-> "none",
          s_dict |-> [sid \in DOMAIN sample_dict \cap MergedFormIds(customer, lab) |->
                         sample_dict[sid]]]

\* The sample dictionary with keys S, up to the lists of paths.
SampleDictOf(S) == [sid \in S |-> [Sample_ID |-> sid]]

\* The dictionaries find_samples hands over for a table with a sample.
SampleDicts == { SampleDictOf(S) : S \in (SUBSET SampleIds) \ {{}} }

InitMerge ==
    /\ pc = "merge_samples_with_submission_form"
    /\ args \in [sample_dict : SampleDicts]
    /\ fs \in [customer : SUBSET SampleIds, lab : SUBSET SampleIds]
    /\ ret = NoRet
    /\ warnings = {}
    /\ output = NoOutput
    /\ locals = NoLocals

CallMergeSamples ==
    /\ pc = "merge_samples_with_submission_form"
    /\ warnings' = warnings \cup
                   CheckExistenceOfSamples(DOMAIN args.sample_dict, fs.customer)
    /\ ret' = MergeSamples(fs.customer, fs.lab, args.sample_dict)
    /\ pc' = "merge_samples_returned"
    /\ UNCHANGED <<args, fs, output, locals>>

NextMerge == CallMergeSamples

SpecMerge == InitMerge /\ [][NextMerge]_vars

WarnedIds(kind) == UNION {w.ids : w \in {x \in warnings : x.kind = kind}}

\* C2: with S the keys of the sample dictionary and F the sample IDs of the
\* submission form, the merge warns of exactly the IDs of S \ F as
\* sheet-only and of exactly the IDs of F \ S as form-only (no warning for
\* an empty difference), does not abort, and returns a mapping whose keys
\* are exactly the IDs in both S and F.
C2_InnerJoin ==
    pc = "merge_samples_returned" =>
        LET S == DOMAIN args.sample_dict
            F == fs.customer
        IN /\ ret.err = "none"
           /\ DOMAIN ret.s_dict = S \cap F
           /\ WarnedIds("in SampleSheet, not in submission form") = S \ F
           /\ WarnedIds("in submission form, not in SampleSheet") = F \ S
           /\ \A w \in warnings : w.ids # {}

\* C9: every sample ID of the sample dictionary that is missing from the
\* returned mapping was named in the 'contained in SampleSheet, but not in
\* sample submission form' warning.
C9_NoSilentDrop ==
    (pc = "merge_samples_returned" /\ ret.err = "none") =>
        (DOMAIN args.sample_dict) \ (DOMAIN ret.s_dict)
            \subseteq WarnedIds("in SampleSheet, not in submission form")

(***************************************************************************)
(* Config Assembler: find_machine and the machine field.                   *)
(***************************************************************************)

\* The keys of SEQUENCERS and the model each maps to (lines 18-25).
SEQUENCERS ==
    [code \in {"NB501038", "SN7001334", "K00251", "M02675", "M03942", "M05617"} |->
        CASE code = "NB501038" -> "NextSeq 500"
          [] code = "SN7001334" -> "HiSeq 2500"
          [] code = "K00251" -> "HiSeq 4000"
          [] code = "M02675" -> "MiSeq NTNU"
          [] code = "M03942" -> "MiSeq StOlav"
          [] code = "M05617" -> "MiSeq SINTEF"]

\* os.path.basename(pth).split('_') of the run folders of the model: well
\* formed names with a known or an unknown machine code, and a name with no
\* underscore.
Basenames ==
    {<<"200101", code, "0001", "FLOWCELL">> : code \in DOMAIN SEQUENCERS \cup {"X00000"}}
    \cup {<<"run1">>}

\* SEQUENCERS.get(machine_code, ''): a model name is a string of one
\* symbol, the empty string has none.
SequencerOf(machine_code) ==
    IF machine_code \in DOMAIN SEQUENCERS THEN <<SEQUENCERS[machine_code]>> ELSE <<>>

\* The orders in which list(S) may enumerate the set S.
ListsOf(S) ==
    {q \in [1..Cardinality(S) -> S] : \A i, j \in DOMAIN q : q[i] = q[j] => i = j}

\* find_machine(runfolders), the set being listed in the order `order`.
FindMachine(names, order) ==
    IF \E i \in DOMAIN names : Len(names[i]) < 2
    THEN [err |-> "IndexError"]
    ELSE LET matches == {SequencerOf(names[i][2]) : i \in DOMAIN names}
         IN [err |-> "none",
             warned |-> Cardinality(matches) > 1,
             machine |-> Join(<<"|">>, order)]

\* The set `matches` of find_machine for well-formed names.
MachineMatches(names) ==
    {SequencerOf(names[i][2]) : i \in {j \in DOMAIN names : Len(names[j]) >= 2}}

\* args.machine values: not given, given empty, given.
MachineArgs == {None, <<>>, <<"NovaSeq">>}

InitMachine ==
    /\ pc = "machine"
    /\ args \in [machine : MachineArgs]
    /\ fs \in SeqsOf(Basenames, 1, MaxRunfolders)
    /\ ret = NoRet
    /\ warnings = {}
    /\ output = NoOutput
    /\ locals = NoLocals

\* config['machine'] = args.machine or find_machine(args.runfolders) (line 272).
MachineField(names, machine, order) ==
    IF machine # None /\ machine # <<>>
    THEN [err |-> "none", warned |-> FALSE, machine |-> machine]
    ELSE FindMachine(names, order)

CallMachineField ==
    /\ pc = "machine"
    /\ \E order \in ListsOf(MachineMatches(fs)) :
          /\ ret' = MachineField(fs, args.machine, order)
          /\ warnings' = warnings \cup
                IF ret'.err = "none" /\ ret'.warned
                THEN {[kind |-> "Multiple sequencing machines identified!"]}
                ELSE {}
    /\ pc' = "machine_returned"
    /\ UNCHANGED <<args, fs, output, locals>>

NextMachine == CallMachineField

SpecMachine == InitMachine /\ [][NextMachine]_vars

\* The distinct non-empty model names of the run folders.
KnownMachines == {m \in MachineMatches(fs) : m # <<>>}

\* C8: with no --machine override, the machine field is the pipe-joined set
\* of the distinct non-empty model names of the run folders' machine codes
\* (the empty string when no code is known), and the multiple-machines
\* warning is logged when that set has more than one member.
C8_MachineField ==
    ( /\ pc = "machine_returned"
      /\ args.machine = None
      /\ \A i \in DOMAIN fs : Len(fs[i]) >= 2 )
    => /\ ret.err = "none"
       /\ \E order \in ListsOf(KnownMachines) : ret.machine = Join(<<"|">>, order)
       /\ Cardinality(KnownMachines) > 1 =>
             [kind |-> "Multiple sequencing machines identified!"] \in warnings

(***************************************************************************)
(* The __main__ block (lines 281-330).  Each step is one call of the block; *)
(* what the call reads from disk is any input of the bounded sets above.   *)
(* locals keeps, of the values the calls return, the part that a later     *)
(* statement of the block branches on.                                     *)
(***************************************************************************)

\* What inspect_dirs can return for the command line's project ID and
\* number of run folders.
InspectDirsOutcomes ==
    [a \in {None, P1} \X (1..MaxRunfolders) |->
        {InspectDirs(rf, a[1]) : rf \in SeqsOf(Listings, a[2], a[2])}]

ProjectIds == {P1, P2, P1old}

\* What get_project_samples_from_samplesheet can return.
ProjectSamplesOutcomes ==
    [a \in ProjectIds \X BOOLEAN \X (1..MaxRunfolders) |->
        IF a[2]
        THEN {GetProjectSamples({sh}, [i \in 1..a[3] |-> {}], a[1]) : sh \in Sheets}
        ELSE {GetProjectSamples({}, f, a[1]) :
                f \in SeqsOf({{}} \cup {{sh} : sh \in Sheets}, a[3], a[3])}]

\* What find_read_geometry can return.
ReadGeometryOutcomes ==
    [n \in 1..MaxRunfolders |->
        {FindReadGeometry(st) : st \in SeqsOf(SeqsOf(ReadInfos, 0, MaxReads), n, n)}]

InitMain ==
    /\ pc = "parse_args"
    /\ args = [parsed |-> FALSE]
    /\ fs = <<>>
    /\ ret = NoRet
    /\ warnings = {}
    /\ \E before \in {"absent", "previous content"} :
          output = [before |-> before, now |-> before]
    /\ locals = NoLocals

\* parser.parse_args() (line 294) on a command line it accepts.  The type
\* of --output is argparse.FileType('w'): the file is opened for writing,
\* which creates or truncates it, while the arguments are parsed.
ParseArgs ==
    /\ pc = "parse_args"
    /\ args' \in [parsed : {TRUE}, runfolders : 1..MaxRunfolders,
                  project_id : {None, P1}, samplesheet : BOOLEAN, ssub : BOOLEAN,
                  machine : MachineArgs, create_fastq_dir : BOOLEAN]
    /\ output' = [output EXCEPT !.now = "empty"]
    /\ pc' = "inspect_dirs"
    /\ UNCHANGED <<fs, ret, warnings, locals>>

\* parser.parse_args() on a command line it rejects (a run folder that is no
\* directory, a malformed project ID): the parser exits, before or after it
\* opened the output file.
ParseArgsError ==
    /\ pc = "parse_args"
    /\ \E now \in {output.now, "empty"} : output' = [output EXCEPT !.now = now]
    /\ ret' = [err |-> "ArgumentError"]
    /\ pc' = "usage_error"
    /\ UNCHANGED <<args, fs, warnings, locals>>

\* An uncaught exception ends the process.
Fatal(r) ==
    /\ ret' = r
    /\ pc' = "fatal"
    /\ UNCHANGED <<args, fs, warnings, output, locals>>

\* Line 295.
MainInspectDirs ==
    /\ pc = "inspect_dirs"
    /\ \E r \in InspectDirsOutcomes[<<args.project_id, args.runfolders>>] :
          IF r.err # "none" THEN Fatal(r)
          ELSE /\ ret' = r
               /\ locals' = [locals EXCEPT !.project_id = r.project_id]
               /\ pc' = "samplesheet"
               /\ UNCHANGED <<args, fs, warnings, output>>

\* Lines 296-297: the sample table, then find_samples, which raises nothing
\* and returns a dictionary keyed by the table's Sample_IDs.
MainSamples ==
    /\ pc = "samplesheet"
    /\ \E r \in ProjectSamplesOutcomes[<<locals.project_id, args.samplesheet,
                                         args.runfolders>>] :
          IF r.err # "none" THEN Fatal(r)
          ELSE \E dirs \in SeqsOf(SubsetsUpTo(FileNames, MaxFiles), args.runfolders,
                                  args.runfolders) :
               /\ ret' = [err |-> "none"]
               /\ locals' = [locals EXCEPT !.samples = DOMAIN FindSamples(r.df, dirs)]
               /\ pc' = "ssub"
               /\ UNCHANGED <<args, fs, warnings, output>>

\* Lines 299-305: the default submission form of a single run folder, or the
\* error that the option is required with several run folders.
MainSubmissionForm ==
    /\ pc = "ssub"
    /\ IF args.ssub
       THEN /\ pc' = "merge"
            /\ UNCHANGED <<args, fs, ret, warnings, output, locals>>
       ELSE IF args.runfolders = 1
       THEN \E exists \in BOOLEAN :
               /\ args' = [args EXCEPT !.ssub = exists]
               /\ pc' = "merge"
               /\ UNCHANGED <<fs, ret, warnings, output, locals>>
       ELSE Fatal([err |-> "SubmissionFormRequired"])

\* Lines 307-308.
MainMerge ==
    /\ pc = "merge"
    /\ IF ~args.ssub
       THEN /\ pc' = "fastq_dir"
            /\ UNCHANGED <<args, fs, ret, warnings, output, locals>>
       ELSE \E customer \in SUBSET SampleIds, lab \in SUBSET SampleIds :
               LET r == MergeSamples(customer, lab, SampleDictOf(locals.samples))
               IN /\ warnings' = warnings \cup
                                 CheckExistenceOfSamples(locals.samples, customer)
                  /\ ret' = r
                  /\ IF r.err # "none"
                     THEN /\ pc' = "fatal"
                          /\ UNCHANGED locals
                     ELSE /\ pc' = "fastq_dir"
                          /\ locals' = [locals EXCEPT !.samples = DOMAIN r.s_dict]
                  /\ UNCHANGED <<args, fs, output>>

\* Lines 310-326: with --create-fastq-dir the FASTQ files of the samples are
\* linked into data/raw/fastq; os.symlink raises when a link exists already.
MainFastqDir ==
    /\ pc = "fastq_dir"
    /\ \/ /\ pc' = "read_geometry"
          /\ UNCHANGED <<args, fs, ret, warnings, output, locals>>
       \/ /\ args.create_fastq_dir
          /\ locals.samples # {}
          /\ Fatal([err |-> "FileExistsError"])

\* Line 271, in create_default_config.
MainReadGeometry ==
    /\ pc = "read_geometry"
    /\ \E r \in ReadGeometryOutcomes[args.runfolders] :
          IF r.err # "none" THEN Fatal(r)
          ELSE /\ ret' = r
               /\ pc' = "machine"
               /\ UNCHANGED <<args, fs, warnings, output, locals>>

\* Line 272, in create_default_config.
MainMachine ==
    /\ pc = "machine"
    /\ \E names \in SeqsOf(Basenames, args.runfolders, args.runfolders) :
       \E order \in ListsOf(MachineMatches(names)) :
          LET r == MachineField(names, args.machine, order)
          IN IF r.err # "none" THEN Fatal(r)
             ELSE /\ ret' = r
                  /\ warnings' = warnings \cup
                        IF r.warned
                        THEN {[kind |-> "Multiple sequencing machines identified!"]}
                        ELSE {}
                  /\ pc' = "dump"
                  /\ UNCHANGED <<args, fs, output, locals>>

\* yaml.dump(config, args.output, ...) (line 330).
MainDump ==
    /\ pc = "dump"
    /\ output' = [output EXCEPT !.now = "config"]
    /\ pc' = "done"
    /\ UNCHANGED <<args, fs, ret, warnings, locals>>

Next ==
    \/ ParseArgs
    \/ ParseArgsError
    \/ MainInspectDirs
    \/ MainSamples
    \/ MainSubmissionForm
    \/ MainMerge
    \/ MainFastqDir
    \/ MainReadGeometry
    \/ MainMachine
    \/ MainDump

Spec == InitMain /\ [][Next]_vars

\* C1: when the run ends in a fatal error raised after argument parsing, the
\* file named by --output is in the state it had before the run: not
\* created, not truncated, not partly written.
C1_NoPartialOutput ==
    pc = "fatal" => output.now = output.before

====
